---- MODULE Spec2Model ----
(***************************************************************************)
(* pyrddl: the Expression wrapper (pyrddl/expr.py) and the Domain object   *)
(* (pyrddl/domain.py), as state machines.                                   *)
(*                                                                         *)
(* Python values are records tagged with their Python type in "kind".      *)
(* A Python str is its sequence of characters (field "chars"), so that     *)
(* formatting and the ordering of strings are computed and not assumed;    *)
(* the string literals of the code's fixed vocabulary (node tags,          *)
(* categories), which the code only ever compares for equality, are kept   *)
(* as TLA+ strings (field "lit").  No identifier of a modelled input is    *)
(* spelled like a literal of the vocabulary.                               *)
(***************************************************************************)
EXTENDS Integers, Sequences, FiniteSets, TLC

VARIABLES
    self,                           \* the Expression object calls are made on
    ret,                            \* outcome of the last call: call, raised, value
    name, requirements,             \* Domain.__init__ fields
    pvariables, cpfs, reward,
    types, preconds, invariants, constraints,
    local_action_preconditions,     \* Domain fields set by build()
    global_action_preconditions,
    action_lower_bound_constraints,
    action_upper_bound_constraints,
    nbuilds                         \* number of build() calls made so far

vars == <<self, ret, name, requirements, pvariables, cpfs, reward,
          types, preconds, invariants, constraints,
          local_action_preconditions, global_action_preconditions,
          action_lower_bound_constraints, action_upper_bound_constraints,
          nbuilds>>

(***************************************************************************)
(* Bounds of the model.                                                    *)
(***************************************************************************)
MaxDepth == 2       \* nesting depth of the expression trees calls are made on
MaxPreconds == 2    \* length of Domain.preconds
MaxBuilds == 2      \* build() calls made on one Domain
MaxLevel == 2       \* levels of intermediate fluents

(***************************************************************************)
(* Python values.                                                          *)
(***************************************************************************)
None == [kind |-> "NoneType"]
Lit(s) == [kind |-> "str", lit |-> s]
Str(cs) == [kind |-> "str", chars |-> cs]
PyInt(n) == [kind |-> "int", val |-> n]
PyBool(b) == [kind |-> "bool", val |-> b]
Tuple(xs) == [kind |-> "tuple", items |-> xs]
List(xs) == [kind |-> "list", items |-> xs]
Expression(node) == [kind |-> "Expression", _expr |-> node]

\* The outcome of a call: a returned value, or the exception it raised.
Return(v) == [raised |-> "none", value |-> v]
Raise(exc) == [raised |-> exc, value |-> None]
Outcome(call, r) == [call |-> call, raised |-> r.raised, value |-> r.value]

\* An attribute that has not been assigned yet.
Unset == [kind |-> "unset"]

\* A dict: its (key, value) pairs in insertion order.
EmptyDict == <<>>
DictHas(d, k) == \E i \in 1..Len(d) : d[i][1] = k
DictGet(d, k) == d[CHOOSE i \in 1..Len(d) : d[i][1] = k][2]
DictSet(d, k, v) ==
    IF DictHas(d, k)
    THEN [i \in 1..Len(d) |-> IF d[i][1] = k THEN <<k, v>> ELSE d[i]]
    ELSE Append(d, <<k, v>>)
DictValues(d) == [i \in 1..Len(d) |-> d[i][2]]

\* Comparison of two str values by code point, as Python compares them.  The
\* characters of the model, in code point order.
CodePointOrder == <<"'", "-", "/", "0", "1", "2", "3", "4", "5", "6", "7", "8", "9",
                    "?", "_", "a", "b", "c", "d", "e", "f", "g", "h", "i", "j", "k",
                    "l", "m", "n", "o", "p", "q", "r", "s", "t", "u", "v", "w", "x",
                    "y", "z">>
Ord(c) == CHOOSE i \in 1..Len(CodePointOrder) : CodePointOrder[i] = c
RECURSIVE CharsLess(_, _)
CharsLess(s, t) ==
    IF t = <<>> THEN FALSE
    ELSE IF s = <<>> THEN TRUE
    ELSE IF Ord(Head(s)) # Ord(Head(t)) THEN Ord(Head(s)) < Ord(Head(t))
    ELSE CharsLess(Tail(s), Tail(t))
StrLess(s, t) == CharsLess(s.chars, t.chars)

\* Python's order on the tuples (level, name) used as sort keys.
KeyLess(k1, k2) == k1[1] < k2[1] \/ (k1[1] = k2[1] /\ StrLess(k1[2], k2[2]))

\* sorted(xs, key=...): a stable sort of <<key, item>> pairs by key.
RECURSIVE SortedInsert(_, _)
SortedInsert(sorted, x) ==
    IF sorted = <<>> THEN <<x>>
    ELSE IF KeyLess(x[1], Head(sorted)[1]) THEN <<x>> \o sorted
    ELSE <<Head(sorted)>> \o SortedInsert(Tail(sorted), x)
RECURSIVE Sorted(_)
Sorted(xs) ==
    IF xs = <<>> THEN <<>>
    ELSE SortedInsert(Sorted(SubSeq(xs, 1, Len(xs) - 1)), xs[Len(xs)])

\* str(n) for a natural number n.
DigitChars == <<"0", "1", "2", "3", "4", "5", "6", "7", "8", "9">>
RECURSIVE Digits(_)
Digits(n) ==
    IF n < 10 THEN <<DigitChars[n + 1]>>
    ELSE Digits(n \div 10) \o <<DigitChars[(n % 10) + 1]>>

\* '{}/{}'.format(functor, arity)
FormatName(functor, arity) == Str(functor.chars \o <<"/">> \o Digits(arity))

\* str(type(v))
TypeStr(v) ==
    CASE v.kind = "int" -> Lit("<class 'int'>")
      [] v.kind = "bool" -> Lit("<class 'bool'>")
      [] v.kind = "str" -> Lit("<class 'str'>")
      [] v.kind = "NoneType" -> Lit("<class 'NoneType'>")
      [] v.kind = "tuple" -> Lit("<class 'tuple'>")
      [] v.kind = "list" -> Lit("<class 'list'>")
      [] OTHER -> Lit("<class 'pyrddl.expr.Expression'>")

(***************************************************************************)
(* Expression (pyrddl/expr.py).                                            *)
(***************************************************************************)
ArithmeticTags == {Lit("+"), Lit("-"), Lit("*"), Lit("/")}
BooleanTags == {Lit("^"), Lit("&"), Lit("|"), Lit("~"), Lit("=>"), Lit("<=>")}
RelationalTags == {Lit(">="), Lit("<="), Lit("<"), Lit(">"), Lit("=="), Lit("~=")}
AggregationTags == {Lit("sum"), Lit("prod"), Lit("avg"), Lit("max"), Lit("min"),
                    Lit("forall"), Lit("exists")}

\* Expression.etype: the pair (category, subtype), from self._expr[0].
etype(e) ==
    LET tag == e._expr.items[1]
        payload == e._expr.items[2]
    IN  IF tag \in {Lit("number"), Lit("boolean")} THEN <<Lit("constant"), TypeStr(payload)>>
        ELSE IF tag = Lit("pvar_expr") THEN <<Lit("pvar"), payload.items[1]>>
        ELSE IF tag = Lit("penum_expr") THEN <<Lit("penum"), payload.items[1]>>
        ELSE IF tag = Lit("randomvar") THEN <<Lit("randomvar"), payload.items[1]>>
        ELSE IF tag \in ArithmeticTags THEN <<Lit("arithmetic"), tag>>
        ELSE IF tag \in BooleanTags THEN <<Lit("boolean"), tag>>
        ELSE IF tag \in RelationalTags THEN <<Lit("relational"), tag>>
        ELSE IF tag = Lit("func") THEN <<Lit("func"), payload.items[1]>>
        ELSE IF tag = Lit("sum") THEN <<Lit("aggregation"), Lit("sum")>>
        ELSE IF tag = Lit("prod") THEN <<Lit("aggregation"), Lit("prod")>>
        ELSE IF tag = Lit("avg") THEN <<Lit("aggregation"), Lit("avg")>>
        ELSE IF tag = Lit("max") THEN <<Lit("aggregation"), Lit("maximum")>>
        ELSE IF tag = Lit("min") THEN <<Lit("aggregation"), Lit("minimum")>>
        ELSE IF tag = Lit("forall") THEN <<Lit("aggregation"), Lit("forall")>>
        ELSE IF tag = Lit("exists") THEN <<Lit("aggregation"), Lit("exists")>>
        ELSE IF tag = Lit("if") THEN <<Lit("control"), Lit("if")>>
        ELSE <<Lit("UNKOWN"), Lit("UNKOWN")>>

\* Expression.args: the payload of the node, from self._expr[0].
args(e) ==
    LET tag == e._expr.items[1]
    IN  IF tag \in {Lit("number"), Lit("boolean")} THEN e._expr.items[2]
        ELSE IF tag = Lit("pvar_expr") THEN e._expr.items[2]
        ELSE IF tag = Lit("penum_expr") THEN e._expr.items[2]
        ELSE IF tag = Lit("randomvar") THEN e._expr.items[2].items[2]
        ELSE IF tag \in ArithmeticTags THEN e._expr.items[2]
        ELSE IF tag \in BooleanTags THEN e._expr.items[2]
        ELSE IF tag \in RelationalTags THEN e._expr.items[2]
        ELSE IF tag = Lit("func") THEN e._expr.items[2].items[2]
        ELSE IF tag \in AggregationTags THEN e._expr.items[2]
        ELSE IF tag = Lit("if") THEN e._expr.items[2]
        ELSE List(<<>>)

is_constant_expression_TagOnly(e) == etype(e)[1] = Lit("number")

is_constant_expression(e) == etype(e)[1] = Lit("constant")

is_pvariable_expression(e) == etype(e)[1] = Lit("pvar")

\* Expression._pvar_to_name: functor/arity of a (functor, params) pair.
_pvar_to_name(pvar_expr) ==
    LET functor == pvar_expr.items[1]
        arity == IF pvar_expr.items[2] # None THEN Len(pvar_expr.items[2].items) ELSE 0
    IN  FormatName(functor, arity)

\* Expression.name: the outcome of reading the property.
expr_name(e) ==
    IF ~is_pvariable_expression(e) THEN Raise("ValueError")
    ELSE Return(_pvar_to_name(args(e)))

\* Expression.value: the outcome of reading the property.
expr_value(e) ==
    IF ~is_constant_expression(e) THEN Raise("ValueError")
    ELSE Return(args(e))

is_nested_TupleOnly(atom) == atom.kind = "tuple"

\* type(atom) in [tuple, list]
is_nested(atom) == atom.kind \in {"tuple", "list"}

\* Expression.__get_scope: the walk over the positions of a raw node, from
\* position i on; it stops at the first position holding 'pvar_expr'.
RECURSIVE __get_scope(_, _)
__get_scope(expr, i) ==
    IF i > Len(expr.items) THEN {}
    ELSE LET atom == expr.items[i]
         IN  IF atom.kind = "Expression"
             THEN __get_scope(atom._expr, 1) \cup __get_scope(expr, i + 1)
             ELSE IF is_nested(atom)
             THEN __get_scope(atom, 1) \cup __get_scope(expr, i + 1)
             ELSE IF atom = Lit("pvar_expr")
             THEN LET functor == expr.items[i + 1].items[1]
                      params == expr.items[i + 1].items[2]
                      arity == IF params # None THEN Len(params.items) ELSE 0
                  IN  {FormatName(functor, arity)}
             ELSE __get_scope(expr, i + 1)

\* Expression.scope
scope(e) == __get_scope(e._expr, 1)

(***************************************************************************)
(* The declaration model and the CPF container, which Domain only reads.   *)
(***************************************************************************)
\* A PVariable declaration: its name, the number of its parameters, its role
\* and, for an intermediate fluent, its level.
PVariable(nm, arity, fluent_type, level) ==
    [name |-> Str(nm), arity |-> arity, fluent_type |-> fluent_type, level |-> level]

\* str(pvar): the canonical name functor/arity.
PVariable_str(pvar) == FormatName(pvar.name, pvar.arity)

is_non_fluent(pvar) == pvar.fluent_type = "non-fluent"
is_state_fluent(pvar) == pvar.fluent_type = "state-fluent"
is_action_fluent(pvar) == pvar.fluent_type = "action-fluent"
is_intermediate_fluent(pvar) == pvar.fluent_type = "interm-fluent"
is_observ_fluent(pvar) == pvar.fluent_type = "observ-fluent"

\* A CPF: Domain reads only its name, a str.
CPF(nm) == [name |-> nm]

(***************************************************************************)
(* Domain (pyrddl/domain.py).                                              *)
(***************************************************************************)
\* { str(pvar): pvar for pvar in self.pvariables if ... }, over the first i
\* declarations.
RECURSIVE FluentDict(_, _)
FluentDict(keep, i) ==
    IF i = 0 THEN EmptyDict
    ELSE IF keep[i] THEN DictSet(FluentDict(keep, i - 1), PVariable_str(pvariables[i]), pvariables[i])
    ELSE FluentDict(keep, i - 1)

non_fluents ==
    FluentDict([i \in 1..Len(pvariables) |-> is_non_fluent(pvariables[i])], Len(pvariables))
state_fluents ==
    FluentDict([i \in 1..Len(pvariables) |-> is_state_fluent(pvariables[i])], Len(pvariables))
action_fluents ==
    FluentDict([i \in 1..Len(pvariables) |-> is_action_fluent(pvariables[i])], Len(pvariables))
intermediate_fluents ==
    FluentDict([i \in 1..Len(pvariables) |-> is_intermediate_fluent(pvariables[i])], Len(pvariables))
observ_fluents ==
    FluentDict([i \in 1..Len(pvariables) |-> is_observ_fluent(pvariables[i])], Len(pvariables))

\* Domain.intermediate_cpfs
intermediate_cpfs ==
    LET all_cpfs == cpfs.items[2].items
        IsInterm(cpf) == DictHas(intermediate_fluents, cpf.name)
        interm_cpfs == SelectSeq(all_cpfs, IsInterm)
    IN  LET keyed == [i \in 1..Len(interm_cpfs) |->
                        <<<<DictGet(intermediate_fluents, interm_cpfs[i].name).level,
                            interm_cpfs[i].name>>, interm_cpfs[i]>>]
            sorted == Sorted(keyed)
        IN  [i \in 1..Len(sorted) |-> sorted[i][2]]

\* Domain.interm_fluent_ordering
interm_fluent_ordering ==
    LET interm_fluents == DictValues(intermediate_fluents)
        keyed == [i \in 1..Len(interm_fluents) |->
                    <<<<interm_fluents[i].level, interm_fluents[i].name>>, interm_fluents[i]>>]
        sorted == Sorted(keyed)
    IN  [i \in 1..Len(sorted) |-> PVariable_str(sorted[i][2])]

\* One iteration of the loop of Domain._build_preconditions_table, with the
\* two tables in st.
file_precond_AnyAction(st, precond) ==
    LET scp == scope(precond)
        action_scope == {action \in scp : DictHas(action_fluents, action)}
    IN  IF Cardinality(action_scope) >= 1
        THEN LET nm == CHOOSE action \in action_scope : TRUE
                 bucket == IF DictHas(st.local, nm) THEN DictGet(st.local, nm) ELSE <<>>
             IN  [st EXCEPT !.local = DictSet(st.local, nm, Append(bucket, precond))]
        ELSE [st EXCEPT !.global = Append(st.global, precond)]

file_precond(st, precond) ==
    LET scp == scope(precond)
        action_scope == {action \in scp : DictHas(action_fluents, action)}
    IN  IF Cardinality(action_scope) = 1
        THEN LET nm == CHOOSE action \in action_scope : TRUE
                 bucket == IF DictHas(st.local, nm) THEN DictGet(st.local, nm) ELSE <<>>
             IN  [st EXCEPT !.local = DictSet(st.local, nm, Append(bucket, precond))]
        ELSE [st EXCEPT !.global = Append(st.global, precond)]

RECURSIVE file_preconds(_, _)
file_preconds(st, i) ==
    IF i > Len(preconds) THEN st
    ELSE file_preconds(file_precond(st, preconds[i]), i + 1)

_build_preconditions_table_NoReset ==
    IF nbuilds = 0
    THEN file_preconds([local |-> EmptyDict, global |-> <<>>], 1)
    ELSE file_preconds([local |-> local_action_preconditions,
                        global |-> global_action_preconditions], 1)

\* Domain._build_preconditions_table: the two tables it assigns.
_build_preconditions_table ==
    file_preconds([local |-> EmptyDict, global |-> <<>>], 1)

_extract_lower_bound_Swapped(nm, expr) ==
    LET et == etype(expr)
        ar == args(expr).items
    IN  IF et[2] \in {Lit("<="), Lit("<")}
        THEN IF ar[2].kind # "Expression" THEN Raise("AttributeError")
             ELSE IF is_pvariable_expression(ar[2]) /\ expr_name(ar[2]).value = nm
             THEN Return(ar[2])
             ELSE Return(None)
        ELSE IF et[2] \in {Lit(">="), Lit(">")}
        THEN IF ar[1].kind # "Expression" THEN Raise("AttributeError")
             ELSE IF is_pvariable_expression(ar[1]) /\ expr_name(ar[1]).value = nm
             THEN Return(ar[1])
             ELSE Return(None)
        ELSE Return(None)

\* Domain._extract_lower_bound; a method called on an operand that is not an
\* Expression object raises AttributeError.
_extract_lower_bound(nm, expr) ==
    LET et == etype(expr)
        ar == args(expr).items
    IN  IF et[2] \in {Lit("<="), Lit("<")}
        THEN IF ar[2].kind # "Expression" THEN Raise("AttributeError")
             ELSE IF is_pvariable_expression(ar[2]) /\ expr_name(ar[2]).value = nm
             THEN Return(ar[1])
             ELSE Return(None)
        ELSE IF et[2] \in {Lit(">="), Lit(">")}
        THEN IF ar[1].kind # "Expression" THEN Raise("AttributeError")
             ELSE IF is_pvariable_expression(ar[1]) /\ expr_name(ar[1]).value = nm
             THEN Return(ar[2])
             ELSE Return(None)
        ELSE Return(None)

\* Domain._extract_upper_bound
_extract_upper_bound(nm, expr) ==
    LET et == etype(expr)
        ar == args(expr).items
    IN  IF et[2] \in {Lit("<="), Lit("<")}
        THEN IF ar[1].kind # "Expression" THEN Raise("AttributeError")
             ELSE IF is_pvariable_expression(ar[1]) /\ expr_name(ar[1]).value = nm
             THEN Return(ar[2])
             ELSE Return(None)
        ELSE IF et[2] \in {Lit(">="), Lit(">")}
        THEN IF ar[2].kind # "Expression" THEN Raise("AttributeError")
             ELSE IF is_pvariable_expression(ar[2]) /\ expr_name(ar[2]).value = nm
             THEN Return(ar[1])
             ELSE Return(None)
        ELSE Return(None)

\* The bounds candidate of one local precondition (bounds_expr), or the
\* exception raised while looking for it.
bounds_expr(precond) ==
    LET expr_type == etype(precond)
        expr_args == args(precond)
    IN  IF expr_type = <<Lit("aggregation"), Lit("forall")>>
        THEN IF Len(expr_args.items) < 2 THEN Raise("IndexError")
             ELSE LET inner_expr == expr_args.items[2]
                  IN  IF inner_expr.kind # "Expression" THEN Raise("AttributeError")
                      ELSE IF etype(inner_expr)[1] = Lit("relational") THEN Return(inner_expr)
                      ELSE Return(None)
        ELSE IF expr_type[1] = Lit("relational") THEN Return(precond)
        ELSE Return(None)

set_bound_FirstWins(table, nm, bound) ==
    IF DictHas(table, nm) THEN table ELSE DictSet(table, nm, bound)

\* self.action_lower_bound_constraints[name] = bound, and the same for upper
set_bound(table, nm, bound) == DictSet(table, nm, bound)

bound_step_NoElse(st, nm, precond) ==
    LET cand == bounds_expr(precond)
    IN  IF cand.raised # "none" THEN [st EXCEPT !.raised = cand.raised]
        ELSE IF cand.value = None THEN st
        ELSE LET lo == _extract_lower_bound(nm, cand.value)
                 up == _extract_upper_bound(nm, cand.value)
                 st1 == IF lo.raised = "none" /\ lo.value # None
                        THEN [st EXCEPT !.lower = set_bound(st.lower, nm, lo.value)]
                        ELSE st
             IN  IF lo.raised # "none" THEN [st EXCEPT !.raised = lo.raised]
                 ELSE IF up.raised # "none" THEN [st1 EXCEPT !.raised = up.raised]
                 ELSE IF up.value # None
                 THEN [st1 EXCEPT !.upper = set_bound(st1.upper, nm, up.value)]
                 ELSE st1

\* One iteration of the inner loop of
\* Domain._build_action_bound_constraints_table, with the two tables and the
\* exception raised so far in st.
bound_step(st, nm, precond) ==
    LET cand == bounds_expr(precond)
    IN  IF cand.raised # "none" THEN [st EXCEPT !.raised = cand.raised]
        ELSE IF cand.value = None THEN st
        ELSE LET lo == _extract_lower_bound(nm, cand.value)
             IN  IF lo.raised # "none" THEN [st EXCEPT !.raised = lo.raised]
                 ELSE IF lo.value # None
                 THEN [st EXCEPT !.lower = set_bound(st.lower, nm, lo.value)]
                 ELSE LET up == _extract_upper_bound(nm, cand.value)
                      IN  IF up.raised # "none" THEN [st EXCEPT !.raised = up.raised]
                          ELSE IF up.value # None
                          THEN [st EXCEPT !.upper = set_bound(st.upper, nm, up.value)]
                          ELSE st

\* The loops of Domain._build_action_bound_constraints_table, from the j-th
\* precondition of the i-th item of local on; an exception ends them.
RECURSIVE bound_steps(_, _, _, _)
bound_steps(st, local, i, j) ==
    IF st.raised # "none" \/ i > Len(local) THEN st
    ELSE IF j > Len(local[i][2]) THEN bound_steps(st, local, i + 1, 1)
    ELSE bound_steps(bound_step(st, local[i][1], local[i][2][j]), local, i, j + 1)

\* Domain._build_action_bound_constraints_table: the two tables it assigns and
\* the exception it raised, if any.
_build_action_bound_constraints_table(local) ==
    bound_steps([lower |-> EmptyDict, upper |-> EmptyDict, raised |-> "none"], local, 1, 1)

(***************************************************************************)
(* Nodes as the parser builds them: every expression is wrapped in an      *)
(* Expression object, a typed variable of an aggregation is a raw pair.    *)
(***************************************************************************)
Pvar(functor, params) == Expression(Tuple(<<Lit("pvar_expr"), Tuple(<<Str(functor), params>>)>>))
Num(n) == Expression(Tuple(<<Lit("number"), PyInt(n)>>))
Op(tag, operands) == Expression(Tuple(<<Lit(tag), Tuple(operands)>>))
TypedVar(v) == Tuple(<<Str(<<"?", v>>), Str(<<"o", "b", "j">>)>>)
Params(vs) == List([i \in 1..Len(vs) |-> Str(<<"?", vs[i]>>)])

(***************************************************************************)
(* The Domain objects build() is called on: three action fluents a/1, b/0  *)
(* and c/2, a state fluent s/0, and up to MaxPreconds preconditions.       *)
(***************************************************************************)
A_x == Pvar(<<"a">>, Params(<<"x">>))
B == Pvar(<<"b">>, None)
C_xy == Pvar(<<"c">>, Params(<<"x", "y">>))
S == Pvar(<<"s">>, None)

BuildPvariables ==
    << PVariable(<<"a">>, 1, "action-fluent", None),
       PVariable(<<"s">>, 0, "state-fluent", None),
       PVariable(<<"b">>, 0, "action-fluent", None),
       PVariable(<<"c">>, 2, "action-fluent", None) >>

\* The number compared with b, one for each operator.
OpNum == [op \in {"<=", "<", ">=", ">"} |->
            CASE op = "<=" -> 1 [] op = "<" -> 2 [] op = ">=" -> 3 [] op = ">" -> 4]

PrecondPool ==
    \* b op n and n op b, for the four order relations
    {Op(op, <<B, Num(OpNum[op])>>) : op \in DOMAIN OpNum}
    \cup {Op(op, <<Num(OpNum[op] + 4), B>>) : op \in DOMAIN OpNum}
    \cup {
      Op("==", <<B, Num(9)>>),
      \* both operands name the action
      Op("<=", <<B, B>>),
      \* b + 1 <= 5: relational, no operand is the pvariable itself
      Op("<=", <<Op("+", <<B, Num(1)>>), Num(5)>>),
      \* forall_{?x : obj} [a(?x) <= 5]
      Op("forall", <<TypedVar("x"), Op("<=", <<A_x, Num(5)>>)>>),
      \* forall_{?x : obj, ?y : obj} [c(?x, ?y) <= 6]
      Op("forall", <<TypedVar("x"), TypedVar("y"), Op("<=", <<C_xy, Num(6)>>)>>),
      \* forall_{?x : obj} [~a(?x)]
      Op("forall", <<TypedVar("x"), Op("~", <<A_x>>)>>),
      \* exists_{?x : obj} [a(?x) >= 0]
      Op("exists", <<TypedVar("x"), Op(">=", <<A_x, Num(0)>>)>>),
      \* forall_{?x : obj} [a(?x) <= b]: two action fluents
      Op("forall", <<TypedVar("x"), Op("<=", <<A_x, B>>)>>),
      \* s >= 0: no action fluent
      Op(">=", <<S, Num(0)>>)
    }

SeqsUpTo(pool, n) == UNION {[1..k -> pool] : k \in 0..n}

NoCall == [call |-> "none", raised |-> "none", value |-> None]

InitBuild ==
    /\ self = Num(0)
    /\ ret = NoCall
    /\ name = Str(<<"d">>)
    /\ requirements = List(<<>>)
    /\ pvariables = BuildPvariables
    /\ cpfs = Tuple(<<Lit("cpfs"), List(<<>>)>>)
    /\ reward = Num(0)
    /\ types = List(<<>>)
    /\ preconds \in SeqsUpTo(PrecondPool, MaxPreconds)
    /\ invariants = List(<<>>)
    /\ constraints = List(<<>>)
    /\ local_action_preconditions = Unset
    /\ global_action_preconditions = Unset
    /\ action_lower_bound_constraints = Unset
    /\ action_upper_bound_constraints = Unset
    /\ nbuilds = 0

\* Domain.build(): both passes; an exception of the second pass leaves the
\* tables as assigned so far.
Build ==
    /\ nbuilds < MaxBuilds
    /\ LET t == _build_preconditions_table
           b == _build_action_bound_constraints_table(t.local)
       IN  /\ local_action_preconditions' = t.local
           /\ global_action_preconditions' = t.global
           /\ action_lower_bound_constraints' = b.lower
           /\ action_upper_bound_constraints' = b.upper
           /\ ret' = Outcome("build", IF b.raised = "none" THEN Return(None) ELSE Raise(b.raised))
    /\ nbuilds' = nbuilds + 1
    /\ UNCHANGED <<self, name, requirements, pvariables, cpfs, reward,
                   types, preconds, invariants, constraints>>

Next == Build

Spec == InitBuild /\ [][Next]_vars

(***************************************************************************)
(* The Domain objects the CPF and ordering views are read on: a state      *)
(* fluent s/0 with its CPF s'/0, and intermediate fluents among a/0, a-b/0 *)
(* and ab/1, each at a level of 1..MaxLevel and each with exactly one CPF. *)
(***************************************************************************)
IntermNames == << <<"a">>, <<"a", "-", "b">>, <<"a", "b">> >>
IntermArity == <<0, 0, 1>>

\* levels[i] = 0: the i-th name is not declared.
IntermPvariables(levels) ==
    LET Decl(i) == PVariable(IntermNames[i], IntermArity[i], "interm-fluent", levels[i])
        RECURSIVE Upto(_)
        Upto(i) == IF i = 0 THEN <<>>
                   ELSE IF levels[i] = 0 THEN Upto(i - 1)
                   ELSE Append(Upto(i - 1), Decl(i))
    IN  Upto(Len(IntermNames))

Reversed(xs) == [i \in 1..Len(xs) |-> xs[Len(xs) + 1 - i]]

StateFluent == PVariable(<<"s">>, 0, "state-fluent", None)

InitCpfs ==
    /\ self = Num(0)
    /\ ret = NoCall
    /\ name = Str(<<"d">>)
    /\ requirements = List(<<>>)
    /\ \E levels \in [1..Len(IntermNames) -> 0..MaxLevel] :
       \E decl_reversed \in BOOLEAN, cpfs_reversed \in BOOLEAN :
          LET interm == IntermPvariables(levels)
              decls == IF decl_reversed THEN Reversed(interm) ELSE interm
              interm_cpfs == [i \in 1..Len(interm) |-> CPF(PVariable_str(interm[i]))]
              ordered == IF cpfs_reversed THEN Reversed(interm_cpfs) ELSE interm_cpfs
          IN  /\ pvariables = <<StateFluent>> \o decls
              /\ cpfs = Tuple(<<Lit("cpfs"),
                                List(ordered \o <<CPF(Str(<<"s", "'", "/", "0">>))>>)>>)
    /\ reward = Num(0)
    /\ types = List(<<>>)
    /\ preconds = <<>>
    /\ invariants = List(<<>>)
    /\ constraints = List(<<>>)
    /\ local_action_preconditions = Unset
    /\ global_action_preconditions = Unset
    /\ action_lower_bound_constraints = Unset
    /\ action_upper_bound_constraints = Unset
    /\ nbuilds = 0

\* Reading Domain.intermediate_cpfs.
GetIntermediateCpfs ==
    /\ ret' = Outcome("intermediate_cpfs", Return(List(intermediate_cpfs)))
    /\ UNCHANGED <<self, name, requirements, pvariables, cpfs, reward,
                   types, preconds, invariants, constraints,
                   local_action_preconditions, global_action_preconditions,
                   action_lower_bound_constraints, action_upper_bound_constraints,
                   nbuilds>>

\* Reading Domain.interm_fluent_ordering.
GetIntermFluentOrdering ==
    /\ ret' = Outcome("interm_fluent_ordering", Return(List(interm_fluent_ordering)))
    /\ UNCHANGED <<self, name, requirements, pvariables, cpfs, reward,
                   types, preconds, invariants, constraints,
                   local_action_preconditions, global_action_preconditions,
                   action_lower_bound_constraints, action_upper_bound_constraints,
                   nbuilds>>

NextCpfs == GetIntermediateCpfs \/ GetIntermFluentOrdering

SpecCpfs == InitCpfs /\ [][NextCpfs]_vars

(***************************************************************************)
(* The Expression objects the properties are read on: trees of nesting     *)
(* depth up to MaxDepth over pvariable references a/0 (null parameter      *)
(* list), b/2 and c/0 (empty parameter list), each reference its own       *)
(* pvar_expr node, wrapped or raw; and one minimal node for every tag of   *)
(* the vocabulary and for two tags outside it.                             *)
(***************************************************************************)
RawPvar(functor, params) == Tuple(<<Lit("pvar_expr"), Tuple(<<Str(functor), params>>)>>)

Leaves ==
    { Pvar(<<"a">>, None),
      RawPvar(<<"a">>, None),
      Pvar(<<"b">>, Params(<<"x", "y">>)),
      RawPvar(<<"b">>, Params(<<"x", "y">>)),
      Pvar(<<"c">>, List(<<>>)),
      Num(5) }

Siblings == { Pvar(<<"b">>, Params(<<"x", "y">>)), Num(5) }

\* The nodes with child t: arithmetic, boolean, relational, aggregation, func
\* and control, wrapped, and an arithmetic node left raw.
Wrappers(t) ==
    {Op("+", <<t, s>>) : s \in Siblings}
    \cup {Op("<=", <<s, t>>) : s \in Siblings}
    \cup {Op("if", <<s, t, s>>) : s \in Siblings}
    \cup {Tuple(<<Lit("*"), Tuple(<<t, s>>)>>) : s \in Siblings}
    \cup { Op("~", <<t>>),
           Op("sum", <<TypedVar("x"), t>>),
           Expression(Tuple(<<Lit("func"), Tuple(<<Str(<<"a", "b", "s">>), List(<<t>>)>>)>>)) }

RECURSIVE Trees(_)
Trees(d) ==
    IF d = 0 THEN Leaves
    ELSE LET sub == Trees(d - 1)
         IN  sub \cup UNION {Wrappers(t) : t \in sub}

OperatorTags == {"+", "-", "*", "/", "^", "&", "|", "~", "=>", "<=>",
                 ">=", "<=", "<", ">", "==", "~="}
AggregationNames == {"sum", "prod", "avg", "max", "min", "forall", "exists"}

MinimalNodes ==
    {Op(tag, <<Num(1), Num(2)>>) : tag \in OperatorTags}
    \cup {Op(tag, <<TypedVar("x"), Num(1)>>) : tag \in AggregationNames}
    \cup { Num(5),
           Expression(Tuple(<<Lit("boolean"), PyBool(TRUE)>>)),
           Pvar(<<"x">>, Params(<<"x", "y">>)),
           Pvar(<<"x">>, None),
           Expression(Tuple(<<Lit("penum_expr"), Tuple(<<Str(<<"l", "o", "w">>), None>>)>>)),
           Expression(Tuple(<<Lit("randomvar"),
                              Tuple(<<Str(<<"n", "o", "r", "m", "a", "l">>),
                                      Tuple(<<Num(0), Num(1)>>)>>)>>)),
           Expression(Tuple(<<Lit("func"), Tuple(<<Str(<<"a", "b", "s">>), List(<<Num(1)>>)>>)>>)),
           Op("if", <<Num(1), Num(2), Num(3)>>),
           Expression(Tuple(<<Lit("foo"), Tuple(<<Num(1)>>)>>)),
           Expression(Tuple(<<Lit("typed_var"), Tuple(<<>>)>>)) }

AsExpression(t) == IF t.kind = "Expression" THEN t ELSE Expression(t)

InitExpr ==
    /\ self \in {AsExpression(t) : t \in Trees(MaxDepth)} \cup MinimalNodes
    /\ ret = NoCall
    /\ name = Str(<<"d">>)
    /\ requirements = List(<<>>)
    /\ pvariables = <<>>
    /\ cpfs = Tuple(<<Lit("cpfs"), List(<<>>)>>)
    /\ reward = Num(0)
    /\ types = List(<<>>)
    /\ preconds = <<>>
    /\ invariants = List(<<>>)
    /\ constraints = List(<<>>)
    /\ local_action_preconditions = Unset
    /\ global_action_preconditions = Unset
    /\ action_lower_bound_constraints = Unset
    /\ action_upper_bound_constraints = Unset
    /\ nbuilds = 0

domainVars == <<name, requirements, pvariables, cpfs, reward,
                types, preconds, invariants, constraints,
                local_action_preconditions, global_action_preconditions,
                action_lower_bound_constraints, action_upper_bound_constraints,
                nbuilds>>

\* Reading the properties of self; none of them assigns anything.
GetEtype ==
    /\ ret' = Outcome("etype", Return(etype(self)))
    /\ UNCHANGED <<self, domainVars>>

GetArgs ==
    /\ ret' = Outcome("args", Return(args(self)))
    /\ UNCHANGED <<self, domainVars>>

GetName ==
    /\ ret' = Outcome("name", expr_name(self))
    /\ UNCHANGED <<self, domainVars>>

GetValue ==
    /\ ret' = Outcome("value", expr_value(self))
    /\ UNCHANGED <<self, domainVars>>

GetScope ==
    /\ ret' = Outcome("scope", Return(scope(self)))
    /\ UNCHANGED <<self, domainVars>>

NextExpr == GetEtype \/ GetArgs \/ GetName \/ GetValue \/ GetScope

SpecExpr == InitExpr /\ [][NextExpr]_vars

(***************************************************************************)
(* The claims.  What a claim says is stated from the shape of the nodes,   *)
(* not through the operators that model the code.                          *)
(***************************************************************************)
Built == nbuilds > 0
BuiltOk == nbuilds > 0 /\ ret.raised = "none"

IsTag(x, tag) == x.kind = "Expression" /\ x._expr.items[1] = Lit(tag)
IsRelational(x) == x.kind = "Expression" /\ x._expr.items[1] \in RelationalTags

\* The canonical name of a pvar_expr node's (functor, params) pair.
RefName(pair) ==
    Str(pair.items[1].chars \o <<"/">>
        \o Digits(IF pair.items[2] = None THEN 0 ELSE Len(pair.items[2].items)))

\* x is a pvariable expression named a.
NamesAction(x, a) == IsTag(x, "pvar_expr") /\ RefName(x._expr.items[2]) = a

\* The action fluents a precondition touches.
ActionNames == {PVariable_str(pvariables[i]) :
                   i \in {j \in 1..Len(pvariables) : pvariables[j].fluent_type = "action-fluent"}}
ActionScope(p) == scope(p) \cap ActionNames

\* The bound a relational candidate c supplies for action a, as the claims
\* state it: <<"lower", bound>>, <<"upper", bound>> or <<"none", None>>.
ClaimedBound(a, c) ==
    LET op == c._expr.items[1]
        L == c._expr.items[2].items[1]
        R == c._expr.items[2].items[2]
    IN  IF op \in {Lit("<="), Lit("<")} /\ NamesAction(R, a) THEN <<"lower", L>>
        ELSE IF op \in {Lit(">="), Lit(">")} /\ NamesAction(L, a) THEN <<"lower", R>>
        ELSE IF op \in {Lit("<="), Lit("<")} /\ NamesAction(L, a) THEN <<"upper", R>>
        ELSE IF op \in {Lit(">="), Lit(">")} /\ NamesAction(R, a) THEN <<"upper", L>>
        ELSE <<"none", None>>

\* The relational candidates of a bucket, as build() took them.
Candidates(bucket) ==
    {bounds_expr(bucket[j]).value : j \in {k \in 1..Len(bucket) : bounds_expr(bucket[k]).value # None}}

KeysUnique(d) == \A i, j \in 1..Len(d) : d[i][1] = d[j][1] => i = j

\* C1: after build(), a precondition that touches exactly one action fluent is
\* in that action's bucket and nowhere else, every other precondition is in
\* the global list and in no bucket, and every bucket and the global list
\* keep the order of preconds.
C1_PreconditionsPartitioned ==
    Built =>
        LET local == local_action_preconditions
            FiledUnder(a) == LET Touches(p) == ActionScope(p) = {a}
                             IN  SelectSeq(preconds, Touches)
            NotLocal(p) == Cardinality(ActionScope(p)) # 1
        IN  /\ KeysUnique(local)
            /\ \A i \in 1..Len(local) :
                  /\ local[i][2] # <<>>
                  /\ local[i][2] = FiledUnder(local[i][1])
            /\ \A a \in ActionNames : FiledUnder(a) # <<>> => DictHas(local, a)
            /\ global_action_preconditions = SelectSeq(preconds, NotLocal)

\* A bucket holding two preconditions in the order of preconds, or a global
\* list holding two.
C1_Witness ==
    /\ Built
    /\ Len(preconds) = 2
    /\ preconds[1] # preconds[2]
    /\ \/ Len(global_action_preconditions) = 2
       \/ \E i \in 1..Len(local_action_preconditions) :
             Len(local_action_preconditions[i][2]) = 2

\* C2: after build(), a lower bound recorded for an action is the other
\* operand of one of its candidates that has the action as the right operand
\* of <= or < or as the left operand of >= or >; an upper bound recorded is the
\* other operand of a candidate that supplies no lower bound and has the
\* action as the left operand of <= or < or as the right operand of >= or >;
\* ==, ~= and candidates with no operand naming the action record nothing.
\* When build() has returned, every candidate of these two kinds has its
\* action in the lower, respectively upper, mapping.
C2_BoundsAsStated ==
    Built =>
        LET local == local_action_preconditions
            lower == action_lower_bound_constraints
            upper == action_upper_bound_constraints
            Stated(a, kind) ==
                LET cs == IF DictHas(local, a) THEN Candidates(DictGet(local, a)) ELSE {}
                IN  {ClaimedBound(a, c)[2] : c \in {x \in cs : ClaimedBound(a, x)[1] = kind}}
        IN  \A a \in ActionNames :
               /\ DictHas(lower, a) => DictGet(lower, a) \in Stated(a, "lower")
               /\ DictHas(upper, a) => DictGet(upper, a) \in Stated(a, "upper")
               /\ ret.raised = "none" =>
                     /\ Stated(a, "lower") # {} => DictHas(lower, a)
                     /\ Stated(a, "upper") # {} => DictHas(upper, a)

\* An action has a lower and an upper bound, from two candidates.
C2_Witness ==
    /\ BuiltOk
    /\ \E a \in ActionNames :
          /\ DictHas(action_lower_bound_constraints, a)
          /\ DictHas(action_upper_bound_constraints, a)
          /\ DictGet(action_lower_bound_constraints, a) # DictGet(action_upper_bound_constraints, a)

\* C3: for every local precondition that is a forall whose body, the last
\* operand after any number of quantified variables, is relational, build()
\* completes without error and the body is the bounds candidate: the bound the
\* body supplies is recorded.
C3_ForallAnyNumberOfVariables ==
    Built =>
        \A i \in 1..Len(local_action_preconditions) :
           LET a == local_action_preconditions[i][1]
               bucket == local_action_preconditions[i][2]
           IN  \A j \in 1..Len(bucket) :
                  LET operands == bucket[j]._expr.items[2].items
                      body == operands[Len(operands)]
                  IN  IsTag(bucket[j], "forall") /\ IsRelational(body) =>
                         /\ ret.raised = "none"
                         /\ ClaimedBound(a, body)[1] = "lower"
                               => DictHas(action_lower_bound_constraints, a)
                         /\ ClaimedBound(a, body)[1] = "upper"
                               => DictHas(action_upper_bound_constraints, a)

\* C7: after build(), every action is a key at most once in each mapping, and
\* no precondition is the source of both a lower and an upper bound: one
\* precondition alone never fills both mappings.
C7_OneBoundPerPrecondition ==
    Built =>
        /\ KeysUnique(action_lower_bound_constraints)
        /\ KeysUnique(action_upper_bound_constraints)
        /\ \A i \in 1..Len(local_action_preconditions) :
              LET a == local_action_preconditions[i][1]
                  bucket == local_action_preconditions[i][2]
                  Alone(p) == bound_step([lower |-> EmptyDict, upper |-> EmptyDict,
                                          raised |-> "none"], a, p)
              IN  /\ \A j \in 1..Len(bucket) :
                         ~(Alone(bucket[j]).lower # <<>> /\ Alone(bucket[j]).upper # <<>>)
                  /\ Len(bucket) = 1 =>
                         ~(/\ DictHas(action_lower_bound_constraints, a)
                           /\ DictHas(action_upper_bound_constraints, a))

\* The only local precondition is b <= b, both operands naming the action.
C7_Witness ==
    /\ BuiltOk
    /\ preconds = <<Op("<=", <<B, B>>)>>
    /\ action_lower_bound_constraints = <<<<FormatName(Str(<<"b">>), 0), B>>>>
    /\ action_upper_bound_constraints = <<>>

\* C8: after a build() that completed, the lower (upper) bound of an action is
\* the one from the last precondition of its bucket that yields a lower
\* (upper) bound; preconditions after it that yield the other kind or nothing
\* leave it as it is, and there is no entry when none yields one.
C8_LastBoundWins ==
    BuiltOk =>
        \A i \in 1..Len(local_action_preconditions) :
           LET a == local_action_preconditions[i][1]
               bucket == local_action_preconditions[i][2]
               Alone(j) == bound_step([lower |-> EmptyDict, upper |-> EmptyDict,
                                       raised |-> "none"], a, bucket[j])
               Lowers == {j \in 1..Len(bucket) : Alone(j).lower # <<>>}
               Uppers == {j \in 1..Len(bucket) : Alone(j).upper # <<>>}
               Last(js) == CHOOSE j \in js : \A k \in js : k <= j
           IN  /\ IF Lowers = {} THEN ~DictHas(action_lower_bound_constraints, a)
                  ELSE /\ DictHas(action_lower_bound_constraints, a)
                       /\ DictGet(action_lower_bound_constraints, a)
                             = Alone(Last(Lowers)).lower[1][2]
               /\ IF Uppers = {} THEN ~DictHas(action_upper_bound_constraints, a)
                  ELSE /\ DictHas(action_upper_bound_constraints, a)
                       /\ DictGet(action_upper_bound_constraints, a)
                             = Alone(Last(Uppers)).upper[1][2]

\* Two preconditions of b that yield different lower bounds: the entry is the
\* second one's.
C8_Witness ==
    /\ BuiltOk
    /\ preconds = <<Op(">=", <<B, Num(3)>>), Op("<", <<Num(6), B>>)>>
    /\ action_lower_bound_constraints = <<<<FormatName(Str(<<"b">>), 0), Num(6)>>>>

\* C10: a build() call after the first leaves the four derived tables as they
\* were, and no build() call changes name, requirements, pvariables, cpfs,
\* reward, preconds, invariants or constraints.
C10_BuildIdempotent ==
    /\ [][nbuilds >= 1 /\ nbuilds' = nbuilds + 1 =>
            /\ local_action_preconditions' = local_action_preconditions
            /\ global_action_preconditions' = global_action_preconditions
            /\ action_lower_bound_constraints' = action_lower_bound_constraints
            /\ action_upper_bound_constraints' = action_upper_bound_constraints]_vars
    /\ [][<<name, requirements, pvariables, cpfs, reward, preconds, invariants,
            constraints>>' = <<name, requirements, pvariables, cpfs, reward, preconds,
                               invariants, constraints>>]_vars

\* build() was called twice on a Domain with local and global preconditions and
\* a bound.
C10_Witness ==
    /\ nbuilds >= 2
    /\ local_action_preconditions # <<>>
    /\ global_action_preconditions # <<>>
    /\ action_lower_bound_constraints # <<>>

\* C9: when every intermediate fluent has exactly one CPF, the names of
\* intermediate_cpfs, in order, are interm_fluent_ordering, and
\* intermediate_cpfs never has a CPF of a higher level before one of a lower
\* level.
C9_CpfsInFluentOrder ==
    LET LevelOf(nm) == LET i == CHOOSE j \in 1..Len(pvariables) :
                                    PVariable_str(pvariables[j]) = nm
                       IN  pvariables[i].level
    IN  /\ ret.call = "intermediate_cpfs" =>
              /\ [i \in 1..Len(ret.value.items) |-> ret.value.items[i].name]
                    = interm_fluent_ordering
              /\ \A i, j \in 1..Len(ret.value.items) :
                    i < j => LevelOf(ret.value.items[i].name) <= LevelOf(ret.value.items[j].name)
        /\ ret.call = "interm_fluent_ordering" =>
              ret.value.items
                 = [i \in 1..Len(intermediate_cpfs) |-> intermediate_cpfs[i].name]

\* The pvariable references of a value, by the shape of the nodes: a node
\* tagged pvar_expr is one reference, any other node has those of its items.
RECURSIVE PvarRefs(_)
PvarRefs(v) ==
    IF v.kind = "Expression" THEN PvarRefs(v._expr)
    ELSE IF v.kind \in {"tuple", "list"}
    THEN IF Len(v.items) = 2 /\ v.items[1] = Lit("pvar_expr") THEN {RefName(v.items[2])}
         ELSE UNION {PvarRefs(v.items[i]) : i \in 1..Len(v.items)}
    ELSE {}

\* C4: scope returns exactly the functor/arity names of the pvariable
\* references of the tree, at any depth, with arity 0 for a null parameter
\* list.
C4_ScopeIsAllReferences ==
    ret.call = "scope" => ret.raised = "none" /\ ret.value = PvarRefs(self)

\* a/0 (null parameter list) and b/2 under two levels of wrappers, one of
\* them a func node with its argument list.
C4_Witness ==
    /\ ret.call = "scope"
    /\ ret.value = {Str(<<"a", "/", "0">>), Str(<<"b", "/", "2">>)}
    /\ self \notin {AsExpression(t) : t \in Trees(1)}
    /\ \E t \in Trees(1) : self._expr.items[2] = Tuple(<<Str(<<"a", "b", "s">>), List(<<t>>)>>)

\* C5: name returns functor/arity (arity 0 for a null parameter list) exactly
\* on a pvar_expr node and raises ValueError on every other node; value
\* returns the literal exactly on a number or boolean node and raises
\* ValueError on every other node; no call changes the wrapped node.
C5_NameAndValue ==
    /\ [](/\ ret.call = "name" =>
                IF self._expr.items[1] = Lit("pvar_expr")
                THEN /\ ret.raised = "none"
                     /\ ret.value = RefName(self._expr.items[2])
                ELSE ret.raised = "ValueError"
          /\ ret.call = "value" =>
                IF self._expr.items[1] \in {Lit("number"), Lit("boolean")}
                THEN /\ ret.raised = "none"
                     /\ ret.value = self._expr.items[2]
                ELSE ret.raised = "ValueError")
    /\ [][self' = self]_vars

\* name was read on a pvariable expression with a null parameter list.
C5_Witness ==
    /\ ret.call = "name"
    /\ ret.raised = "none"
    /\ self._expr.items[2].items[2] = None
    /\ ret.value = Str(<<"a", "/", "0">>)

\* The (category, subtype) the specification documents for a tag; the subtype
\* is documented for the operators, the aggregations, if and unknown tags.
DocumentedCategory(tag) ==
    IF tag \in {"number", "boolean"} THEN "constant"
    ELSE IF tag = "pvar_expr" THEN "pvar"
    ELSE IF tag = "penum_expr" THEN "penum"
    ELSE IF tag = "randomvar" THEN "randomvar"
    ELSE IF tag \in {"+", "-", "*", "/"} THEN "arithmetic"
    ELSE IF tag \in {"^", "&", "|", "~", "=>", "<=>"} THEN "boolean"
    ELSE IF tag \in {">=", "<=", "<", ">", "==", "~="} THEN "relational"
    ELSE IF tag = "func" THEN "func"
    ELSE IF tag \in AggregationNames THEN "aggregation"
    ELSE IF tag = "if" THEN "control"
    ELSE "UNKNOWN"

DocumentedSubtype(tag) ==
    IF tag = "max" THEN "maximum"
    ELSE IF tag = "min" THEN "minimum"
    ELSE IF tag \in OperatorTags \cup AggregationNames \cup {"if"} THEN tag
    ELSE "UNKNOWN"

\* C6: on a tag outside the vocabulary etype returns (UNKNOWN, UNKNOWN) and
\* args returns an empty list, without raising; on a tag of the vocabulary
\* etype returns the documented category and subtype.
C6_EtypeTable ==
    LET tag == self._expr.items[1].lit
        category == DocumentedCategory(tag)
    IN  /\ ret.call = "etype" =>
              /\ ret.raised = "none"
              /\ ret.value[1] = Lit(category)
              /\ category \in {"arithmetic", "boolean", "relational", "aggregation",
                               "control", "UNKNOWN"}
                    => ret.value[2] = Lit(DocumentedSubtype(tag))
        /\ ret.call = "args" /\ category = "UNKNOWN" =>
              ret.raised = "none" /\ ret.value = List(<<>>)

====
